---- MODULE Spec2Model ----
(***************************************************************************)
(* cli-locate: a terminal dashboard that looks up the user's location over *)
(* HTTP and draws it on a world map (src/src/main.rs).                     *)
(*                                                                         *)
(* Time is counted in whole milliseconds.  Coordinates are integers in     *)
(* units of 1e-5 degree, one digit finer than the {:.4} the status line    *)
(* prints.  The rotation accumulator is kept in thousandths, so that       *)
(* "elapsed seconds * 10.0" is "elapsed milliseconds * 10".                *)
(* An Option is a sequence of length at most one; a Result<Location> is    *)
(* the same (Err carries nothing the callers look at).                     *)
(***************************************************************************)
EXTENDS Integers, Sequences, FiniteSets, TLC

VARIABLES
    pc,          \* position of main / run_app
    term,        \* terminal modes currently acquired: subset of {"raw","alt","mouse"}
    steps,       \* release steps performed so far by main's teardown
    app,         \* the App struct: location, last_update, rotation
    last_tick,   \* run_app's local last_tick
    now,         \* the monotonic clock read by Instant::now()
    upstream,    \* what the HTTP endpoint answers to the next request
    frame,       \* the frame most recently drawn by terminal.draw (Option)
    res,         \* result of run_app: "none" while it runs, then "Ok" or "Err"
    printed,     \* whether main printed the run error to standard output
    exitCode,    \* process exit status (Option)
    lastOp,      \* history: the operation that produced this state
    fetchLog,    \* history: success flag of every fetch attempt, startup first
    updates,     \* history: App::new, then every App::update: the clock, the renders
                 \* since the previous one and the fetches made so far
    iters        \* history: renders since the last periodic update

vars == <<pc, term, steps, app, last_tick, now, upstream, frame, res, printed,
          exitCode, lastOp, fetchLog, updates, iters>>

-----------------------------------------------------------------------------
(* Bounds of the model *)

MaxTime == 510
MaxFetches == 3
MaxIters == 2

\* waits after which poll() reports an event when the timeout allows it
PollWaits == {0, 100}
\* how long one HTTP round trip blocks the loop
FetchTimes == {60, 300}
\* clock movement between two consecutive Instant::now() calls
CallGaps == {0, 1}

-----------------------------------------------------------------------------
(* Options *)

None == <<>>
Some(v) == <<v>>
IsSome(o) == o # <<>>
Unwrap(o) == o[1]

-----------------------------------------------------------------------------
(* Program constants *)

tick_rate == 250

Unknown == "Unknown"

-----------------------------------------------------------------------------
(* The wire: what the endpoint may answer *)

Wire(status, lat, lon, city, country) ==
    [status |-> status, lat |-> lat, lon |-> lon, city |-> city, country |-> country]

Lats == {3777490, 3777494, -3386880}
Lons == {-12241940, 15120930, 4}
Cities == {"San Francisco", "Sydney"}
Countries == {"United States", "Australia"}

OptionOf(S) == {None} \cup {Some(v) : v \in S}

\* every body the JSON decoder can be handed, and the two transport failures
AllResponses ==
    {Wire("ok", lat, lon, city, country) :
        lat \in OptionOf(Lats), lon \in OptionOf(Lons),
        city \in OptionOf(Cities), country \in OptionOf(Countries)}
    \cup {Wire("network_error", None, None, None, None),
          Wire("decode_error", None, None, None, None)}

\* the answers the event loop is exercised with
LoopResponses ==
    {Wire("ok", Some(3777490), Some(-12241940), Some("San Francisco"), Some("United States")),
     Wire("ok", Some(-3386880), Some(15120930), None, None),
     Wire("ok", None, Some(15120930), Some("Sydney"), Some("Australia")),
     Wire("network_error", None, None, None, None),
     Wire("decode_error", None, None, None, None)}

-----------------------------------------------------------------------------
(* Location Fetcher *)

Location(latitude, longitude, city, country) ==
    [latitude |-> latitude, longitude |-> longitude, city |-> city, country |-> country]

unwrap_or_else(o, default) == IF IsSome(o) THEN Unwrap(o) ELSE default

\* faulty variant: one default decision for both text fields
get_location_SharedDefault(resp) ==
    IF resp.status # "ok" \/ ~IsSome(resp.lat) \/ ~IsSome(resp.lon)
    THEN None
    ELSE IF IsSome(resp.city) /\ IsSome(resp.country)
         THEN Some(Location(Unwrap(resp.lat), Unwrap(resp.lon),
                            Unwrap(resp.city), Unwrap(resp.country)))
         ELSE Some(Location(Unwrap(resp.lat), Unwrap(resp.lon), Unknown, Unknown))

\* get_location on the answer resp: Some(Location) for Ok, None for Err.
\* reqwest::get(..).await? fails on a transport error; .json::<LocationResponse>()
\* fails on an undecodable body and on a body without the f64 fields lat, lon.
get_location(resp) ==
    IF resp.status # "ok" \/ ~IsSome(resp.lat) \/ ~IsSome(resp.lon)
    THEN None
    ELSE Some(Location(Unwrap(resp.lat), Unwrap(resp.lon),
                       unwrap_or_else(resp.city, Unknown),
                       unwrap_or_else(resp.country, Unknown)))

-----------------------------------------------------------------------------
(* Application State *)

App(location, last_update, rotation) ==
    [location |-> location, last_update |-> last_update, rotation |-> rotation]

\* App::new() at clock t
AppNew(t) == App(None, t, 0)

\* faulty variant: the update forgets `self.last_update = now`
update_StaleLastUpdate(a, t) ==
    LET elapsed == t - a.last_update
    IN  App(a.location, a.last_update, a.rotation + elapsed * 10)

\* faulty variant: the update rebuilds the state and loses the location
update_DropsLocation(a, t) ==
    LET elapsed == t - a.last_update
    IN  App(None, t, a.rotation + elapsed * 10)

\* App::update() at clock t
update(a, t) ==
    LET elapsed == t - a.last_update
    IN  App(a.location, t, a.rotation + elapsed * 10)

\* faulty variant: `app.location = get_location().await.ok()`
StoreFetch_ClearsOnError(a, result) == App(result, a.last_update, a.rotation)

\* faulty variant: a successful fetch starts the state afresh
StoreFetch_ResetsRotation(a, result) ==
    IF IsSome(result) THEN App(result, a.last_update, 0) ELSE a

\* faulty variant: `app.location = Some(get_location().await.unwrap_or_default())`
StoreFetch_DefaultOnError(a, result) ==
    IF IsSome(result) THEN App(result, a.last_update, a.rotation)
    ELSE App(Some(Location(0, 0, "", "")), a.last_update, a.rotation)

\* the assignment under `if let Ok(location) = get_location().await`
StoreFetch(a, result) ==
    IF IsSome(result) THEN App(result, a.last_update, a.rotation) ELSE a

-----------------------------------------------------------------------------
(* Renderer *)

Pad4(n) ==
    IF n < 10 THEN "000" \o ToString(n)
    ELSE IF n < 100 THEN "00" \o ToString(n)
    ELSE IF n < 1000 THEN "0" \o ToString(n)
    ELSE ToString(n)

\* format!("{:.4}", x) of a coordinate x given in 1e-5 degree: the fifth decimal
\* is rounded away.  (A fifth decimal of exactly 5 is decided by the binary
\* value of the f64; the coordinates used here never end in 5.)
Fmt4(x) ==
    LET mag == IF x < 0 THEN -x ELSE x
        q == (mag + 5) \div 10
    IN  (IF x < 0 THEN "-" ELSE "") \o ToString(q \div 10000) \o "." \o Pad4(q % 10000)

info_text(a) ==
    IF IsSome(a.location)
    THEN LET location == Unwrap(a.location)
         IN  "Location: " \o location.city \o ", " \o location.country
             \o " | Lat: " \o Fmt4(location.latitude) \o "°, Lon: "
             \o Fmt4(location.longitude) \o "°"
    ELSE "Fetching location..."

\* faulty variant: the marker turns with the globe
marker_Rotated(a) ==
    IF IsSome(a.location)
    THEN LET x == Unwrap(a.location).longitude + a.rotation
             y == Unwrap(a.location).latitude
         IN  << <<x, y, "●">>, <<x + 500000, y + 500000, Unwrap(a.location).city>> >>
    ELSE << >>

\* what the canvas closure prints for the location: the marker glyph at
\* (longitude, latitude) and the city 5 degrees up and to the right
marker(a) ==
    IF IsSome(a.location)
    THEN LET x == Unwrap(a.location).longitude
             y == Unwrap(a.location).latitude
         IN  << <<x, y, "●">>, <<x + 500000, y + 500000, Unwrap(a.location).city>> >>
    ELSE << >>

\* ui(f, app): the status paragraph and the location prints of the canvas
ui(a) == [info |-> info_text(a), marker |-> marker(a)]

-----------------------------------------------------------------------------
(* Initial state: the process has started, main has not run a statement *)

Init ==
    /\ pc = "enable_raw"
    /\ term = {}
    /\ steps = {}
    /\ now = 0
    /\ app = AppNew(0)      \* not yet created: NewApp sets it, at the same clock
    /\ last_tick = 0       \* not yet created: StartupFetch sets it
    /\ upstream \in LoopResponses
    /\ frame = None
    /\ res = "none"
    /\ printed = FALSE
    /\ exitCode = None
    /\ lastOp = "start"
    /\ fetchLog = << >>
    /\ updates = << >>
    /\ iters = 0

\* one entry of the history of updates
Mark(t) == [at |-> t, renders |-> iters, fetches |-> Len(fetchLog)]

\* main returns Err(e) through `?`: the process ends with a failure status
Fail(op) ==
    /\ pc' = "exit"
    /\ exitCode' = Some(1)
    /\ lastOp' = op

\* the endpoint's answer changes between requests (it is only ever read by the
\* request a key press makes, so the change is placed right before the poll)
UpstreamChange ==
    /\ pc = "poll"
    /\ \E r \in LoopResponses \ {upstream} : upstream' = r
    /\ lastOp' = "UpstreamChange"
    /\ UNCHANGED <<pc, term, steps, app, last_tick, now, frame, res, printed,
                   exitCode, fetchLog, updates, iters>>

-----------------------------------------------------------------------------
(* Terminal Lifecycle: acquisition *)

\* enable_raw_mode()?
EnableRawMode ==
    /\ pc = "enable_raw"
    /\ \/ /\ term' = term \cup {"raw"}
          /\ pc' = "enter_screen"
          /\ lastOp' = "EnableRawMode"
          /\ UNCHANGED exitCode
       \/ /\ Fail("EnableRawMode failed")
          /\ UNCHANGED term
    /\ UNCHANGED <<steps, app, last_tick, now, upstream, frame, res, printed,
                   fetchLog, updates, iters>>

\* execute!(stdout, EnterAlternateScreen, EnableMouseCapture)?
\* the commands are written in order and the first error ends the macro
EnterScreen ==
    /\ pc = "enter_screen"
    /\ \/ /\ term' = term \cup {"alt", "mouse"}
          /\ pc' = "terminal_new"
          /\ lastOp' = "EnterScreen"
          /\ UNCHANGED exitCode
       \/ /\ Fail("EnterScreen failed")
          /\ \E done \in {{}, {"alt"}, {"alt", "mouse"}} : term' = term \cup done
    /\ UNCHANGED <<steps, app, last_tick, now, upstream, frame, res, printed,
                   fetchLog, updates, iters>>

\* Terminal::new(backend)?
TerminalNew ==
    /\ pc = "terminal_new"
    /\ \/ /\ pc' = "app_new"
          /\ lastOp' = "TerminalNew"
          /\ UNCHANGED exitCode
       \/ Fail("TerminalNew failed")
    /\ UNCHANGED <<term, steps, app, last_tick, now, upstream, frame, res, printed,
                   fetchLog, updates, iters>>

\* let app = App::new();
NewApp ==
    /\ pc = "app_new"
    /\ app' = AppNew(now)
    /\ updates' = <<Mark(now)>>
    /\ \E g \in CallGaps : now' = now + g
    /\ pc' = "run_app"
    /\ lastOp' = "NewApp"
    /\ UNCHANGED <<term, steps, last_tick, upstream, frame, res, printed, exitCode,
                   fetchLog, iters>>

-----------------------------------------------------------------------------
(* Event Loop: run_app *)

\* run_app returns: control is back in main, at the teardown
Return(result) ==
    /\ res' = result
    /\ pc' = "disable_raw"

\* tick_rate.checked_sub(last_tick.elapsed()).unwrap_or_else(|| Duration::from_secs(0))
timeout ==
    LET elapsed == now - last_tick
    IN  IF elapsed <= tick_rate THEN tick_rate - elapsed ELSE 0

\* the waits after which poll(timeout) can report an event
EventWaits == {w \in PollWaits : w <= timeout /\ now + w <= MaxTime}

\* let mut last_tick = Instant::now(); and the fetch before the loop
StartupFetch ==
    /\ pc = "run_app"
    /\ last_tick' = now
    /\ \E d \in FetchTimes :
          /\ now + d <= MaxTime
          /\ now' = now + d
    /\ LET result == get_location(upstream)
       IN  /\ app' = StoreFetch(app, result)
           /\ fetchLog' = Append(fetchLog, IsSome(result))
    /\ pc' = "draw"
    /\ lastOp' = "StartupFetch"
    /\ UNCHANGED <<term, steps, upstream, frame, res, printed, exitCode,
                   updates, iters>>

\* terminal.draw(|f| ui(f, &app))?
Draw ==
    /\ pc = "draw"
    /\ iters < MaxIters
    /\ \/ /\ frame' = Some(ui(app))
          /\ iters' = iters + 1
          /\ pc' = "poll"
          /\ lastOp' = "Draw"
          /\ UNCHANGED res
       \/ /\ Return("Err")
          /\ lastOp' = "Draw failed"
          /\ UNCHANGED <<frame, iters>>
    /\ UNCHANGED <<term, steps, app, last_tick, now, upstream, printed, exitCode,
                   fetchLog, updates>>

\* crossterm::event::poll(timeout)? fails
PollError ==
    /\ pc = "poll"
    /\ Return("Err")
    /\ lastOp' = "PollError"
    /\ UNCHANGED <<term, steps, app, last_tick, now, upstream, frame, printed,
                   exitCode, fetchLog, updates, iters>>

\* poll(timeout) returns false once the timeout has run out
PollTimeout ==
    /\ pc = "poll"
    /\ now + timeout <= MaxTime
    /\ now' = now + timeout
    /\ pc' = "tick"
    /\ lastOp' = "PollTimeout"
    /\ UNCHANGED <<term, steps, app, last_tick, upstream, frame, res, printed,
                   exitCode, fetchLog, updates, iters>>

\* poll(timeout) returns true and event::read()? fails
ReadError ==
    /\ pc = "poll"
    /\ \E w \in EventWaits : now' = now + w
    /\ Return("Err")
    /\ lastOp' = "ReadError"
    /\ UNCHANGED <<term, steps, app, last_tick, upstream, frame, printed,
                   exitCode, fetchLog, updates, iters>>

\* an event that is not Event::Key (mouse, resize, ...)
OtherEvent ==
    /\ pc = "poll"
    /\ \E w \in EventWaits : now' = now + w
    /\ pc' = "tick"
    /\ lastOp' = "OtherEvent"
    /\ UNCHANGED <<term, steps, app, last_tick, upstream, frame, res, printed,
                   exitCode, fetchLog, updates, iters>>

\* faulty variant: the quit arm leaves the match instead of the function
KeyQuit_FallsThrough ==
    /\ pc = "poll"
    /\ \E w \in EventWaits : now' = now + w
    /\ \E key \in {"q", "Esc"} : lastOp' = "Key " \o key
    /\ pc' = "tick"
    /\ UNCHANGED <<term, steps, app, last_tick, upstream, frame, res, printed,
                   exitCode, fetchLog, updates, iters>>

\* KeyCode::Char('q') | KeyCode::Esc => return Ok(())
KeyQuit ==
    /\ pc = "poll"
    /\ \E w \in EventWaits : now' = now + w
    /\ \E key \in {"q", "Esc"} : lastOp' = "Key " \o key
    /\ Return("Ok")
    /\ UNCHANGED <<term, steps, app, last_tick, upstream, frame, printed,
                   exitCode, fetchLog, updates, iters>>

\* KeyCode::Char('r') => the fetch, awaited inside the loop
KeyRefresh ==
    /\ pc = "poll"
    /\ Len(fetchLog) < MaxFetches
    /\ \E w \in EventWaits : \E d \in FetchTimes :
          /\ now + w + d <= MaxTime
          /\ now' = now + w + d
    /\ LET result == get_location(upstream)
       IN  /\ app' = StoreFetch(app, result)
           /\ fetchLog' = Append(fetchLog, IsSome(result))
    /\ pc' = "tick"
    /\ lastOp' = "Key r"
    /\ UNCHANGED <<term, steps, last_tick, upstream, frame, res, printed, exitCode,
                   updates, iters>>

\* _ => {}
KeyOther ==
    /\ pc = "poll"
    /\ \E w \in EventWaits : now' = now + w
    /\ pc' = "tick"
    /\ lastOp' = "Key other"
    /\ UNCHANGED <<term, steps, app, last_tick, upstream, frame, res, printed,
                   exitCode, fetchLog, updates, iters>>

\* if last_tick.elapsed() >= tick_rate { app.update(); last_tick = Instant::now(); }
PeriodicUpdate ==
    /\ pc = "tick"
    /\ now - last_tick >= tick_rate
    /\ app' = update(app, now)
    /\ updates' = Append(updates, Mark(now))
    /\ \E g \in CallGaps :
          /\ now + g <= MaxTime
          /\ now' = now + g
          /\ last_tick' = now + g
    /\ iters' = 0
    /\ pc' = "draw"
    /\ lastOp' = "PeriodicUpdate"
    /\ UNCHANGED <<term, steps, upstream, frame, res, printed, exitCode, fetchLog>>

\* the tick is not due: the loop goes round
TickNotDue ==
    /\ pc = "tick"
    /\ now - last_tick < tick_rate
    /\ pc' = "draw"
    /\ lastOp' = "TickNotDue"
    /\ UNCHANGED <<term, steps, app, last_tick, now, upstream, frame, res, printed,
                   exitCode, fetchLog, updates, iters>>

-----------------------------------------------------------------------------
(* Terminal Lifecycle: release, and the end of main *)

\* disable_raw_mode()?
DisableRawMode ==
    /\ pc = "disable_raw"
    /\ \/ /\ term' = term \ {"raw"}
          /\ steps' = steps \cup {"disable_raw_mode"}
          /\ pc' = "leave_screen"
          /\ lastOp' = "DisableRawMode"
          /\ UNCHANGED exitCode
       \/ /\ Fail("DisableRawMode failed")
          /\ UNCHANGED <<term, steps>>
    /\ UNCHANGED <<app, last_tick, now, upstream, frame, res, printed,
                   fetchLog, updates, iters>>

\* execute!(terminal.backend_mut(), LeaveAlternateScreen, DisableMouseCapture)?
LeaveScreen ==
    /\ pc = "leave_screen"
    /\ \/ /\ term' = term \ {"alt", "mouse"}
          /\ steps' = steps \cup {"LeaveAlternateScreen", "DisableMouseCapture"}
          /\ pc' = "show_cursor"
          /\ lastOp' = "LeaveScreen"
          /\ UNCHANGED exitCode
       \/ /\ Fail("LeaveScreen failed")
          /\ \E done \in {{}, {"alt"}} :
                /\ term' = term \ done
                /\ steps' = steps \cup {IF m = "alt" THEN "LeaveAlternateScreen"
                                                      ELSE "DisableMouseCapture" : m \in done}
    /\ UNCHANGED <<app, last_tick, now, upstream, frame, res, printed,
                   fetchLog, updates, iters>>

\* terminal.show_cursor()?
ShowCursor ==
    /\ pc = "show_cursor"
    /\ \/ /\ steps' = steps \cup {"show_cursor"}
          /\ pc' = "report"
          /\ lastOp' = "ShowCursor"
          /\ UNCHANGED exitCode
       \/ /\ Fail("ShowCursor failed")
          /\ UNCHANGED steps
    /\ UNCHANGED <<term, app, last_tick, now, upstream, frame, res, printed,
                   fetchLog, updates, iters>>

\* faulty variant: the run's error becomes main's result
Report_PropagatesRunError ==
    /\ pc = "report"
    /\ printed' = (res = "Err")
    /\ exitCode' = IF res = "Err" THEN Some(1) ELSE Some(0)
    /\ pc' = "exit"
    /\ lastOp' = "Report"
    /\ UNCHANGED <<term, steps, app, last_tick, now, upstream, frame, res,
                   fetchLog, updates, iters>>

\* if let Err(err) = res { println!("{:?}", err) }  Ok(())
Report ==
    /\ pc = "report"
    /\ printed' = (res = "Err")
    /\ exitCode' = Some(0)
    /\ pc' = "exit"
    /\ lastOp' = "Report"
    /\ UNCHANGED <<term, steps, app, last_tick, now, upstream, frame, res,
                   fetchLog, updates, iters>>

-----------------------------------------------------------------------------

Next ==
    \/ EnableRawMode
    \/ EnterScreen
    \/ TerminalNew
    \/ NewApp
    \/ StartupFetch
    \/ Draw
    \/ PollError
    \/ PollTimeout
    \/ ReadError
    \/ OtherEvent
    \/ KeyQuit
    \/ KeyRefresh
    \/ KeyOther
    \/ PeriodicUpdate
    \/ TickNotDue
    \/ UpstreamChange
    \/ DisableRawMode
    \/ LeaveScreen
    \/ ShowCursor
    \/ Report

Spec == Init /\ [][Next]_vars

-----------------------------------------------------------------------------
(* The loop against an endpoint whose answer never changes *)

NextSteady ==
    \/ EnableRawMode
    \/ EnterScreen
    \/ TerminalNew
    \/ NewApp
    \/ StartupFetch
    \/ Draw
    \/ PollError
    \/ PollTimeout
    \/ ReadError
    \/ OtherEvent
    \/ KeyQuit
    \/ KeyRefresh
    \/ KeyOther
    \/ PeriodicUpdate
    \/ TickNotDue
    \/ DisableRawMode
    \/ LeaveScreen
    \/ ShowCursor
    \/ Report

SpecSteady == Init /\ [][NextSteady]_vars

-----------------------------------------------------------------------------
(* The fetch on its own: run_app is entered with any answer waiting *)

InitFetch ==
    /\ pc = "run_app"
    /\ term = {"raw", "alt", "mouse"}
    /\ steps = {}
    /\ now = 0
    /\ app = AppNew(0)
    /\ last_tick = 0
    /\ upstream \in AllResponses
    /\ frame = None
    /\ res = "none"
    /\ printed = FALSE
    /\ exitCode = None
    /\ lastOp = "NewApp"
    /\ fetchLog = << >>
    /\ updates = <<[at |-> 0, renders |-> 0, fetches |-> 0]>>
    /\ iters = 0

NextFetch == StartupFetch

SpecFetch == InitFetch /\ [][NextFetch]_vars

-----------------------------------------------------------------------------
(* Properties *)

Last(seq) == seq[Len(seq)]

\* a step that made a fetch attempt, and whether it failed
FetchStep == Len(fetchLog') = Len(fetchLog) + 1
FailedFetchStep == FetchStep /\ ~Last(fetchLog')

\* C1: a failed fetch attempt, at startup or on 'r', leaves the stored location
\* exactly as it was: absent stays absent, a stored Location keeps its four fields.
C1_FailedFetchKeepsLocation ==
    [][FailedFetchStep => app'.location = app.location]_vars

\* a refresh has just failed while a Location was stored
C1_Witness ==
    /\ lastOp = "Key r"
    /\ ~Last(fetchLog)
    /\ IsSome(app.location)
    /\ upstream.status = "ok" /\ ~IsSome(upstream.lat)

AllReleaseSteps ==
    {"disable_raw_mode", "LeaveAlternateScreen", "DisableMouseCapture", "show_cursor"}

\* C2: once run_app has returned (Ok or Err), the process does not exit before
\* all four release steps have been performed.
C2_ReleaseAlwaysCompletes ==
    (pc = "exit" /\ res # "none") => steps = AllReleaseSteps

\* C3 as stated: whatever fails, the process exits with status 0.
C3_AlwaysExitsZero ==
    pc = "exit" => exitCode = Some(0)

\* C3 as amended: the process exits 0 exactly when every setup and teardown step
\* succeeded, whatever run_app returned; an Err from run_app is then printed and
\* nothing else is; when a setup or teardown step fails the exit status is 1.
C3_ExitZeroIffLifecycleSucceeded ==
    pc = "exit" =>
        /\ exitCode \in {Some(0), Some(1)}
        /\ exitCode = Some(0) <=> (lastOp = "Report" /\ steps = AllReleaseSteps)
        /\ exitCode = Some(0) => (res \in {"Ok", "Err"} /\ printed = (res = "Err"))
        /\ exitCode = Some(1) => ~printed

\* the loop failed, the teardown went through, the error was printed, exit 0
C3_Witness ==
    /\ pc = "exit"
    /\ res = "Err"
    /\ printed
    /\ exitCode = Some(0)

\* C4: reading 'q' or Escape ends run_app with Ok in that very step, whatever the
\* state, and nothing is rendered, fetched or updated once run_app has returned.
C4_QuitReturnsAtOnce ==
    [][ /\ (pc = "poll" /\ lastOp' \in {"Key q", "Key Esc"}) =>
              (res' = "Ok" /\ pc' = "disable_raw" /\ app' = app /\ frame' = frame)
        /\ res # "none" =>
              /\ res' = res
              /\ app' = app /\ frame' = frame /\ last_tick' = last_tick
              /\ fetchLog' = fetchLog /\ updates' = updates /\ iters' = iters
      ]_vars

\* Escape was read with a location stored and the rotation advanced
C4_Witness ==
    /\ lastOp = "Key Esc"
    /\ res = "Ok"
    /\ IsSome(app.location)
    /\ app.rotation > 0

\* C5: an answer with lat and lon yields a Location with exactly those
\* coordinates, and city and country each taken from the answer or, when absent
\* there, set to "Unknown", one independently of the other.
C5_FetchBuildsLocation ==
    (lastOp = "StartupFetch" /\ upstream.status = "ok"
        /\ IsSome(upstream.lat) /\ IsSome(upstream.lon)) =>
        /\ IsSome(app.location)
        /\ Unwrap(app.location).latitude = Unwrap(upstream.lat)
        /\ Unwrap(app.location).longitude = Unwrap(upstream.lon)
        /\ Unwrap(app.location).city =
              (IF upstream.city = None THEN "Unknown" ELSE Unwrap(upstream.city))
        /\ Unwrap(app.location).country =
              (IF upstream.country = None THEN "Unknown" ELSE Unwrap(upstream.country))

\* an answer without city but with country has been stored
C5_Witness ==
    /\ lastOp = "StartupFetch"
    /\ upstream.city = None
    /\ upstream.country = Some("Australia")
    /\ IsSome(app.location)
    /\ Unwrap(app.location).city = "Unknown"
    /\ Unwrap(app.location).country = "Australia"

\* the clock time covered by the recorded update intervals, in milliseconds
RECURSIVE SumIntervals(_)
SumIntervals(marks) ==
    IF Len(marks) < 2 THEN 0
    ELSE (marks[Len(marks)].at - marks[Len(marks) - 1].at)
         + SumIntervals(SubSeq(marks, 1, Len(marks) - 1))

\* C6: after N periodic updates the rotation is 10 times the seconds that passed
\* in the N intervals between them (the first one starting at App::new), however
\* many renders fell into an interval and however long a fetch stretched it.
\* (rotation is in thousandths and the intervals in milliseconds)
C6_RotationIsTenTimesElapsed ==
    Len(updates) >= 1 => app.rotation = 10 * SumIntervals(updates)

\* two updates: the first interval held one render; the second held two renders
\* and a refresh whose round trip carried it past the tick
C6_Witness ==
    /\ Len(updates) = 3
    /\ updates[2].renders = 1
    /\ updates[2].fetches = 1
    /\ updates[3].renders = 2
    /\ updates[3].fetches = 2
    /\ updates[3].at - updates[2].at >= tick_rate + 10
    /\ app.rotation = 10 * (updates[3].at - updates[1].at)

\* C7: the rotation starts at 0, never decreases, and only the periodic update
\* changes it.
C7_RotationMonotonic ==
    /\ app.rotation = 0
    /\ [][ /\ app'.rotation >= app.rotation
           /\ app'.rotation # app.rotation => lastOp' = "PeriodicUpdate"
           /\ lastOp' = "NewApp" => app'.rotation = 0 ]_vars

\* a successful refresh after the rotation has advanced
C7_Witness ==
    /\ lastOp = "Key r"
    /\ Last(fetchLog)
    /\ app.rotation > 0


\* whether a manual refresh has succeeded so far (the first entry is the startup)
RefreshSucceeded == \E i \in 2..Len(fetchLog) : fetchLog[i]

\* the status line and the canvas prints the renderer owes to a stored Location
Shown(location) ==
    IF location.city = "San Francisco"
    THEN [info |-> "Location: San Francisco, United States | Lat: 37.7749°, Lon: -122.4194°",
          marker |-> << <<-12241940, 3777490, "●">>,
                        <<-11741940, 4277490, "San Francisco">> >>]
    ELSE [info |-> "Location: Unknown, Unknown | Lat: -33.8688°, Lon: 151.2093°",
          marker |-> << <<15120930, -3386880, "●">>,
                        <<15620930, -2886880, "Unknown">> >>]

\* C8: after a failed startup fetch every frame shows "Fetching location..." and
\* no marker until a manual refresh has succeeded; the first render after that
\* (and every later one) shows the Location line of the stored location. Failed
\* refreshes, ticks and other keys do not change what is shown.
C8_FetchingUntilRefreshSucceeds ==
    [][ /\ (lastOp' = "Draw" /\ ~fetchLog[1]) =>
              frame' = Some(IF RefreshSucceeded
                            THEN Shown(Unwrap(app.location))
                            ELSE [info |-> "Fetching location...", marker |-> << >>])
        /\ lastOp' # "Draw" => frame' = frame
      ]_vars

\* startup failed, a refresh failed, a tick passed, a refresh succeeded, and
\* the render that followed shows the location
C8_Witness ==
    /\ lastOp = "Draw"
    /\ fetchLog = <<FALSE, FALSE, TRUE>>
    /\ Len(updates) >= 2
    /\ frame = Some(Shown(Unwrap(app.location)))
    /\ Unwrap(frame).info # "Fetching location..."

\* C9: with an endpoint whose answer never changes, the stored Location, the
\* status line and the marker label are the same after every successful refresh:
\* once a frame shows a location every later frame equals it, whatever number of
\* refreshes and ticks lies between them.
C9_RefreshIdempotent ==
    [][ /\ IsSome(app.location) => app'.location = app.location
        /\ (IsSome(frame) /\ Unwrap(frame).marker # << >>) => frame' = frame
      ]_vars

\* three successful fetches with an update between the last two, then a render
C9_Witness ==
    /\ lastOp = "Draw"
    /\ fetchLog = <<TRUE, TRUE, TRUE>>
    /\ Len(updates) >= 2
    /\ updates[2].fetches = 2
    /\ IsSome(frame) /\ Unwrap(frame).marker # << >>

\* C10: only a successful fetch changes the stored location; keys other than
\* 'r' (and events that are no key, and the poll timing out) leave the whole
\* application state alone; a stored location never becomes absent.
C10_LocationFrame ==
    [][ /\ app'.location # app.location =>
              (lastOp' \in {"StartupFetch", "Key r"} /\ FetchStep /\ Last(fetchLog'))
        /\ lastOp' \in {"Key other", "Key q", "Key Esc", "OtherEvent", "PollTimeout", "Draw"} =>
              app' = app
        /\ lastOp' \in {"PeriodicUpdate", "TickNotDue"} => app'.location = app.location
        /\ IsSome(app.location) => IsSome(app'.location)
      ]_vars

\* an update has just run over a stored location
C10_Witness ==
    /\ lastOp = "PeriodicUpdate"
    /\ IsSome(app.location)
    /\ app.rotation > 0
    /\ Len(fetchLog) = 2 /\ ~Last(fetchLog)

====
